---------------------------- MODULE Spec2Model ----------------------------
(***************************************************************************)
(* TransitSense: a retrieval index built at start-up from two local files  *)
(* (rag_pipeline.py) and a chat loop that routes every input line through  *)
(* the agent / tools / booking graph (app.py).                             *)
(*                                                                         *)
(* Text is a sequence of symbols.  A symbol is one character ("y", " ")    *)
(* or a literal fragment of the source kept whole ("Train ", the canned    *)
(* replies, READY_TO_BOOK).  The external services (language model,        *)
(* structured model, embedding provider, vector index) are the             *)
(* environment: every call returns one of a bounded set of values or       *)
(* raises.                                                                 *)
(***************************************************************************)
EXTENDS Naturals, Sequences, FiniteSets, TLC

VARIABLES
    jsonFile,      \* contents of train_data.json on disk
    policyFile,    \* contents of policies.txt on disk
    transit_db,    \* the TransitRetriever object: [vectorstore, retriever]
    raised,        \* exception leaving TransitRetriever() / a turn, or "None"
    pc,            \* position of the process
    line,          \* value returned by input() in the current iteration
    user_input,    \* input().strip()
    messages,      \* AgentState["messages"] of the running invocation
    response,      \* value of llm_with_tools.invoke in agent_logic, this turn
    structured_in, \* argument of structured_llm.invoke, this turn
    result,        \* result["messages"] of the last finished invocation
    printed,       \* content printed after "AI:" by the last print
    turns,         \* lines read that did not end the loop
    invocations,   \* calls of app.invoke
    prints,        \* replies printed
    llmCalls,      \* calls of llm_with_tools.invoke in the current turn
    toolCalls,     \* executions of search_railway_info in the current turn
    bookingCalls,  \* calls of booking_parser in the current turn
    ret,           \* value returned by the last direct call of search
    found,         \* positions retriever.invoke returned in that call (docs)
    searches,      \* direct calls of search so far
    embedCalls     \* calls made to the embedding provider / vector index

vars == <<jsonFile, policyFile, transit_db, raised, pc, line, user_input,
          messages, response, structured_in, result, printed, turns,
          invocations, prints, llmCalls, toolCalls, bookingCalls, ret, found,
          searches, embedCalls>>

fileVars == <<jsonFile, policyFile>>
chatVars == <<line, user_input, messages, response, structured_in, result,
              printed, turns, invocations, prints, llmCalls, toolCalls,
              bookingCalls>>

----------------------------------------------------------------------------
(* Bounds *)

MaxTurns == 2        \* lines processed as turns in one session
MaxToolLoops == 1    \* tool requests the language model makes in one turn
MaxRecords == 2      \* records in the schedule file
MaxSearches == 2     \* direct calls of search after the build

----------------------------------------------------------------------------
(* Python built-ins on text *)

Last(s) == s[Len(s)]

Whitespace == {" ", "\t"}

lower_table ==
    [c \in {"Y", "E", "S", "O", "K", "N", "A", "H", "Q", "U", "I", "T", "X",
            "B", "Train ", ". Price: ", ". Class: ", ". Days: ",
            "Pipeline not initialized."} |->
        CASE c = "Y" -> "y" [] c = "E" -> "e" [] c = "S" -> "s"
          [] c = "O" -> "o" [] c = "K" -> "k" [] c = "N" -> "n"
          [] c = "A" -> "a" [] c = "H" -> "h" [] c = "Q" -> "q"
          [] c = "U" -> "u" [] c = "I" -> "i" [] c = "T" -> "t"
          [] c = "X" -> "x" [] c = "B" -> "b"
          [] c = "Train " -> "train "
          [] c = ". Price: " -> ". price: "
          [] c = ". Class: " -> ". class: "
          [] c = ". Days: " -> ". days: "
          [] c = "Pipeline not initialized." -> "pipeline not initialized."]

\* str.lower()
lower(s) ==
    [i \in 1..Len(s) |->
        IF s[i] \in DOMAIN lower_table THEN lower_table[s[i]] ELSE s[i]]

RECURSIVE lstrip(_)
lstrip(s) ==
    IF s # <<>> /\ s[1] \in Whitespace THEN lstrip(Tail(s)) ELSE s

RECURSIVE rstrip(_)
rstrip(s) ==
    IF s # <<>> /\ s[Len(s)] \in Whitespace
    THEN rstrip(SubSeq(s, 1, Len(s) - 1))
    ELSE s

\* str.strip()
strip(s) == rstrip(lstrip(s))

\* sep.join(parts)
RECURSIVE join(_, _)
join(sep, parts) ==
    IF parts = <<>> THEN <<>>
    ELSE IF Len(parts) = 1 THEN parts[1]
    ELSE parts[1] \o sep \o join(sep, Tail(parts))

\* needle in text, for a needle that is one symbol
contains(text, needle) == \E i \in 1..Len(text) : text[i] = needle


----------------------------------------------------------------------------
(* rag_pipeline.py: the document loader *)

Fields == {"name", "train_no", "source", "destination", "price", "class",
           "days"}

\* Two well-formed train records and one that lacks the key 'days'.
Rec1 == [name |-> "rajdhani", train_no |-> "12951", source |-> "mumbai",
         destination |-> "delhi", price |-> "3000", class |-> "3a",
         days |-> "daily"]
Rec2 == [name |-> "shatabdi", train_no |-> "12002", source |-> "bhopal",
         destination |-> "agra", price |-> "1500", class |-> "cc",
         days |-> "mon"]
RecNoDays == [f \in Fields \ {"days"} |-> Rec1[f]]

Records == {Rec1, Rec2, RecNoDays}

RECURSIVE SeqsUpTo(_, _)
SeqsUpTo(S, n) ==
    IF n = 0 THEN {<<>>}
    ELSE LET shorter == SeqsUpTo(S, n - 1)
         IN  shorter \cup {Append(s, x) : s \in shorter, x \in S}

\* What open(json_path) / json.load can find on disk.
JsonFiles ==
    {[kind |-> "missing", data |-> <<>>], [kind |-> "malformed", data |-> <<>>]}
    \cup {[kind |-> "list", data |-> d] : d \in SeqsUpTo(Records, MaxRecords)}

\* The policy text, given by the windows RecursiveCharacterTextSplitter
\* (chunk_size 500, chunk_overlap 80) cuts it into; the empty text has none.
PolicyYes == <<"y", "e", "s">>
PolicyRefund == <<"refund", " ", "rules">>
PolicyLuggage == <<"luggage", " ", "rules">>

PolicyFiles ==
    {[kind |-> "missing", windows |-> <<>>]}
    \cup {[kind |-> "text", windows |-> w] :
            w \in {<<>>, <<PolicyYes>>, <<PolicyRefund>>,
                   <<PolicyRefund, PolicyLuggage>>}}

Document(text, tag) == [page_content |-> text, metadata |-> tag]

\* The f-string of _load_json_docs; t[f] raises KeyError when f is absent.
TrainText(t) ==
    <<"Train ", t["name"], " (", t["train_no"], ") travels from ",
      t["source"], " to ", t["destination"], ". Price: ", t["price"],
      ". Class: ", t["class"], ". Days: ", t["days"], ".">>

HasAllKeys(t) == Fields \subseteq DOMAIN t

\* _load_json_docs with a loop that stops one record early
load_json_docs_short(file) ==
    IF file.kind = "missing" THEN [raised |-> "None", docs |-> <<>>]
    ELSE IF file.kind = "malformed"
    THEN [raised |-> "JSONDecodeError", docs |-> <<>>]
    ELSE IF \E i \in 1..Len(file.data) : ~HasAllKeys(file.data[i])
    THEN [raised |-> "KeyError", docs |-> <<>>]
    ELSE [raised |-> "None",
          docs |-> [i \in 1..(Len(file.data) - 1) |->
                       Document(TrainText(file.data[i]), "schedule")]]

\* _load_json_docs: [raised, docs]
_load_json_docs(file) ==
    IF file.kind = "missing" THEN [raised |-> "None", docs |-> <<>>]
    ELSE IF file.kind = "malformed"
    THEN [raised |-> "JSONDecodeError", docs |-> <<>>]
    ELSE IF \E i \in 1..Len(file.data) : ~HasAllKeys(file.data[i])
    THEN [raised |-> "KeyError", docs |-> <<>>]
    ELSE [raised |-> "None",
          docs |-> [i \in 1..Len(file.data) |->
                       Document(TrainText(file.data[i]), "schedule")]]

\* splitter.create_documents([text]): one Document per window, no tag yet
create_documents(file) ==
    [i \in 1..Len(file.windows) |-> Document(file.windows[i], "none")]

\* _load_text_docs: the list of policy Documents
_load_text_docs(file) ==
    IF file.kind = "missing" THEN <<>>
    ELSE LET docs == create_documents(file)
         IN  [i \in 1..Len(docs) |-> [docs[i] EXCEPT !.metadata = "policy"]]

K == 3

\* TransitRetriever.__init__ before _build_pipeline
NewRetriever == [vectorstore |-> <<>>, retriever |-> "None"]

\* _build_pipeline that returns as soon as the schedule gave no documents
build_pipeline_needs_schedule(self, json, policy, embed_ok) ==
    LET train == _load_json_docs(json)
        policy_docs == _load_text_docs(policy)
        all_docs == train.docs \o policy_docs
    IN  IF train.raised # "None"
        THEN [raised |-> train.raised, self |-> self, embedded |-> FALSE]
        ELSE IF train.docs = <<>>
        THEN [raised |-> "None", self |-> self, embedded |-> FALSE]
        ELSE IF ~embed_ok
        THEN [raised |-> "EmbeddingError", self |-> self, embedded |-> TRUE]
        ELSE [raised |-> "None",
              self |-> [vectorstore |-> all_docs, retriever |-> "k"],
              embedded |-> TRUE]

\* _build_pipeline: [raised, self, embedded]; embed_ok is whether
\* OpenAIEmbeddings / FAISS.from_documents return.
_build_pipeline(self, json, policy, embed_ok) ==
    LET train == _load_json_docs(json)
        policy_docs == _load_text_docs(policy)
        all_docs == train.docs \o policy_docs
    IN  IF train.raised # "None"
        THEN [raised |-> train.raised, self |-> self, embedded |-> FALSE]
        ELSE IF all_docs = <<>>
        THEN [raised |-> "None", self |-> self, embedded |-> FALSE]
        ELSE IF ~embed_ok
        THEN [raised |-> "EmbeddingError", self |-> self, embedded |-> TRUE]
        ELSE [raised |-> "None",
              self |-> [vectorstore |-> all_docs, retriever |-> "k"],
              embedded |-> TRUE]

NotInitialized == <<"Pipeline not initialized.">>
\* "\n".join in place of "\n\n".join
SeparatorNewline == <<"\n">>
Separator == <<"\n\n">>

Min(a, b) == IF a < b THEN a ELSE b

\* What retriever.invoke(query) can return: the positions of
\* min(K, chunks) distinct indexed chunks, in the index's ranking order.
Rankings(self) ==
    LET n == Len(self.vectorstore)
    IN  {h \in [1..Min(K, n) -> 1..n] :
            \A i, j \in DOMAIN h : i # j => h[i] # h[j]}

\* search without the test of self.retriever
search_unguarded(self, query, hits) ==
    [ret |-> join(Separator,
                  [i \in 1..Len(hits) |->
                      self.vectorstore[hits[i]].page_content]),
     self |-> self, asked |-> TRUE]

\* search that drops the chunks it returned from the store
search_consuming(self, query, hits) ==
    IF self.retriever = "None"
    THEN [ret |-> NotInitialized, self |-> self, asked |-> FALSE]
    ELSE [ret |-> join(Separator,
                       [i \in 1..Len(hits) |->
                           self.vectorstore[hits[i]].page_content]),
          self |-> [self EXCEPT !.vectorstore = <<>>], asked |-> TRUE]

\* search: [ret, self, asked]; hits is the ranking retriever.invoke returns,
\* asked is whether the retriever was invoked.
search(self, query, hits) ==
    IF self.retriever = "None"
    THEN [ret |-> NotInitialized, self |-> self, asked |-> FALSE]
    ELSE [ret |-> join(Separator,
                       [i \in 1..Len(hits) |->
                           self.vectorstore[hits[i]].page_content]),
          self |-> self, asked |-> TRUE]


----------------------------------------------------------------------------
(* app.py: messages, the agent node, the routing edge *)

HumanMessage(c) == [type |-> "human", content |-> c, tool_calls |-> <<>>]
AIMessage(c, calls) == [type |-> "ai", content |-> c, tool_calls |-> calls]
ToolMessage(c) == [type |-> "tool", content |-> c, tool_calls |-> <<>>]
NoMessage == [type |-> "none", content |-> <<>>, tool_calls |-> <<>>]

YesList ==
    {<<"y", "e", "s">>, <<"y">>, <<"b", "o", "o", "k">>,
     <<"b", "o", "o", "k", " ", "i", "t">>,
     <<"c", "o", "n", "f", "i", "r", "m">>,
     <<"o", "k", " ", "b", "o", "o", "k">>}

NoList == {<<"n", "o">>, <<"n", "o", "p", "e">>, <<"n", "a", "h">>}

ExitList == {<<"e", "x", "i", "t">>, <<"q", "u", "i", "t">>}

IrctcUrl == "https://www.irctc.co.in/nget/train-search"

BookingLinkReply ==
    <<"Great! You can book the ticket using the official IRCTC portal:\n",
      IrctcUrl,
      "If you'd like, I can help you find more trains or compare prices!">>

DeclineReply == <<"No problem! Tell me what else you want to search or ask.">>

Sentinel == "READY_TO_BOOK"

\* What llm_with_tools.invoke can return: text with or without the
\* sentinel, with or without a request for search_railway_info.
Queries == {"trains to delhi", "refund rules"}
ReplyTexts == {<<"Which train?">>, <<"All set. ", Sentinel>>}
LLMReplies(mayCall) ==
    {AIMessage(c, <<>>) : c \in ReplyTexts}
    \cup (IF mayCall
          THEN {AIMessage(c, <<q>>) : c \in ReplyTexts, q \in Queries}
          ELSE {})

\* What structured_llm.invoke can return, and str() of it.
TicketBookings ==
    {[train_name |-> "rajdhani", source |-> "mumbai", destination |-> "delhi",
      passenger_name |-> "asha", class_type |-> "3a"]}
str(b) ==
    <<"train_name=", b.train_name, " source=", b.source, " destination=",
      b.destination, " passenger_name=", b.passenger_name, " class_type=",
      b.class_type>>

\* The test of line 93 with "nah" left out
is_no_short(user_msg) == user_msg \in {<<"n", "o">>, <<"n", "o", "p", "e">>}

\* The test of line 79 and of line 93 on the lower-cased last message.
is_yes(user_msg) == user_msg \in YesList
is_no(user_msg) == user_msg \in NoList

\* agent_logic: [messages, invoked]; reply is what llm_with_tools.invoke
\* returns if it is called, invoked is whether it is called.
agent_logic(state, reply) ==
    LET user_msg == lower(Last(state).content)
    IN  IF is_yes(user_msg)
        THEN [messages |-> <<AIMessage(BookingLinkReply, <<>>)>>,
              invoked |-> FALSE]
        ELSE IF is_no(user_msg)
        THEN [messages |-> <<AIMessage(DeclineReply, <<>>)>>,
              invoked |-> FALSE]
        ELSE [messages |-> <<reply>>, invoked |-> TRUE]

\* The state key without its reducer: a node's output overwrites the list
add_messages_overwrite(left, right) == right

\* add_messages: the reducer of AgentState["messages"]
add_messages(left, right) == left \o right

\* The edge with the sentinel tested before the tool request
route_sentinel_first(state) ==
    IF contains(Last(state).content, Sentinel) THEN "booking"
    ELSE IF Last(state).type = "ai" /\ Last(state).tool_calls # <<>>
    THEN "tools"
    ELSE "END"

\* The edge with a cap on tool rounds: a second tool request ends the turn
route_capped(state) ==
    IF Last(state).type = "ai" /\ Last(state).tool_calls # <<>>
       /\ \A i \in 1..Len(state) : state[i].type # "tool"
    THEN "tools"
    ELSE IF contains(Last(state).content, Sentinel) THEN "booking"
    ELSE "END"

\* The conditional edge leaving "agent".
route(state) ==
    IF Last(state).type = "ai" /\ Last(state).tool_calls # <<>>
    THEN "tools"
    ELSE IF contains(Last(state).content, Sentinel) THEN "booking"
    ELSE "END"

\* booking_parser: [messages, input]
booking_parser(state, booking) ==
    [messages |-> <<AIMessage(str(booking), <<>>)>>, input |-> state]

\* input() without .strip(); the exit test without .lower()
read_input_raw(l) == l
is_exit_cased(text) == text \in ExitList

\* The chat loop: input().strip(), the exit test, the state given to
\* app.invoke.
read_input(l) == strip(l)
is_exit(text) == lower(text) \in ExitList
invoke_input(previous, text) == <<HumanMessage(text)>>


----------------------------------------------------------------------------
(* The process *)

\* Lines typed at the prompt.
Lines ==
    {<<"y", "e", "s">>, <<" ", "Y", "e", "s", "\t">>,
     <<"O", "K", " ", "b", "o", "o", "k">>,
     <<"n", "o">>, <<"N", "a", "h", " ">>,
     <<"e", "x", "i", "t">>, <<" ", "Q", "U", "I", "T">>,
     <<>>, <<" ">>, <<"h", "i">>}

\* The files of the sessions followed turn by turn.
ChatJsonFiles ==
    {[kind |-> "missing", data |-> <<>>], [kind |-> "list", data |-> <<Rec1>>],
     [kind |-> "malformed", data |-> <<>>],
     [kind |-> "list", data |-> <<RecNoDays>>]}
ChatPolicyFiles ==
    {[kind |-> "missing", windows |-> <<>>],
     [kind |-> "text", windows |-> <<PolicyYes>>]}

InitProcess ==
    /\ transit_db = NewRetriever
    /\ raised = "None"
    /\ pc = "start"
    /\ line = <<>>
    /\ user_input = <<>>
    /\ messages = <<>>
    /\ response = NoMessage
    /\ structured_in = <<>>
    /\ result = <<>>
    /\ printed = <<>>
    /\ turns = 0
    /\ invocations = 0
    /\ prints = 0
    /\ llmCalls = 0
    /\ toolCalls = 0
    /\ bookingCalls = 0
    /\ ret = <<>>
    /\ found = <<>>
    /\ searches = 0
    /\ embedCalls = 0

Init ==
    /\ jsonFile \in ChatJsonFiles
    /\ policyFile \in ChatPolicyFiles
    /\ InitProcess

InitLoader ==
    /\ jsonFile \in JsonFiles
    /\ policyFile \in PolicyFiles
    /\ InitProcess

\* print(f"Error initializing TransitRetriever: {e}")
StartupError(e) == <<"Error initializing TransitRetriever: ", e>>

\* The start-up with an except branch that prints and does not exit
BuildKeepsGoing ==
    /\ pc = "start"
    /\ \E embed_ok \in BOOLEAN :
        LET b == _build_pipeline(NewRetriever, jsonFile, policyFile, embed_ok)
        IN  /\ raised' = b.raised
            /\ embedCalls' = IF b.embedded THEN embedCalls + 1 ELSE embedCalls
            /\ transit_db' = b.self
            /\ printed' = IF b.raised = "None" THEN printed
                          ELSE StartupError(b.raised)
            /\ pc' = "input"
    /\ UNCHANGED <<fileVars, line, user_input, messages, response,
                   structured_in, result, turns, invocations, prints,
                   llmCalls, toolCalls, bookingCalls, ret, found, searches>>

\* transit_db = TransitRetriever() inside try / except Exception: exit()
Build ==
    /\ pc = "start"
    /\ \E embed_ok \in BOOLEAN :
        LET b == _build_pipeline(NewRetriever, jsonFile, policyFile, embed_ok)
        IN  /\ raised' = b.raised
            /\ embedCalls' = IF b.embedded THEN embedCalls + 1 ELSE embedCalls
            /\ IF b.raised = "None"
               THEN /\ transit_db' = b.self
                    /\ printed' = printed
                    /\ pc' = "input"
               ELSE /\ transit_db' = transit_db
                    /\ printed' = StartupError(b.raised)
                    /\ pc' = "exited"
    /\ UNCHANGED <<fileVars, line, user_input, messages, response,
                   structured_in, result, turns, invocations, prints,
                   llmCalls, toolCalls, bookingCalls, ret, found, searches>>

\* One iteration of while True up to app.invoke entering the agent node.
ReadLine ==
    /\ pc = "input"
    /\ \E l \in Lines :
        LET text == read_input(l)
        IN  /\ line' = l
            /\ user_input' = text
            /\ IF is_exit(text)
               THEN /\ pc' = "ended"
                    /\ UNCHANGED <<messages, response, structured_in, turns,
                                   invocations, llmCalls, toolCalls,
                                   bookingCalls>>
               ELSE /\ turns < MaxTurns
                    /\ pc' = "agent"
                    /\ messages' = invoke_input(result, text)
                    /\ response' = NoMessage
                    /\ structured_in' = <<>>
                    /\ turns' = turns + 1
                    /\ invocations' = invocations + 1
                    /\ llmCalls' = 0
                    /\ toolCalls' = 0
                    /\ bookingCalls' = 0
    /\ UNCHANGED <<fileVars, transit_db, raised, result, printed, prints, ret, found,
                   searches, embedCalls>>

\* The agent node and the conditional edge that leaves it.
Agent ==
    /\ pc = "agent"
    /\ \E reply \in LLMReplies(toolCalls < MaxToolLoops) :
        LET out == agent_logic(messages, reply)
            after == add_messages(messages, out.messages)
            next == route(after)
        IN  /\ messages' = after
            /\ llmCalls' = IF out.invoked THEN llmCalls + 1 ELSE llmCalls
            /\ response' = IF out.invoked THEN reply ELSE response
            /\ IF next = "END"
               THEN pc' = "print" /\ result' = after
               ELSE pc' = next /\ result' = result
    /\ UNCHANGED <<fileVars, transit_db, raised, line, user_input,
                   structured_in, printed, turns, invocations, prints,
                   toolCalls, bookingCalls, ret, found, searches, embedCalls>>

\* llm_with_tools.invoke raises: nothing catches it.
AgentRaises ==
    /\ pc = "agent"
    /\ agent_logic(messages, NoMessage).invoked
    /\ llmCalls' = llmCalls + 1
    /\ raised' = "LLMError"
    /\ pc' = "crashed"
    /\ UNCHANGED <<fileVars, transit_db, line, user_input, messages, response,
                   structured_in, result, printed, turns, invocations, prints,
                   toolCalls, bookingCalls, ret, found, searches, embedCalls>>

\* The tools node: search_railway_info(query), then the edge back to agent.
Tools ==
    /\ pc = "tools"
    /\ \E hits \in Rankings(transit_db) :
        LET out == search(transit_db, Last(messages).tool_calls[1], hits)
        IN  /\ messages' = add_messages(messages, <<ToolMessage(out.ret)>>)
            /\ transit_db' = out.self
            /\ embedCalls' = IF out.asked THEN embedCalls + 1 ELSE embedCalls
    /\ toolCalls' = toolCalls + 1
    /\ pc' = "agent"
    /\ UNCHANGED <<fileVars, raised, line, user_input, response,
                   structured_in, result, printed, turns, invocations, prints,
                   llmCalls, bookingCalls, ret, found, searches>>

\* retriever.invoke raises inside search.
ToolsRaises ==
    /\ pc = "tools"
    /\ transit_db.retriever # "None"
    /\ toolCalls' = toolCalls + 1
    /\ embedCalls' = embedCalls + 1
    /\ raised' = "SearchError"
    /\ pc' = "crashed"
    /\ UNCHANGED <<fileVars, transit_db, line, user_input, messages, response,
                   structured_in, result, printed, turns, invocations, prints,
                   llmCalls, bookingCalls, ret, found, searches>>

\* The booking node and its edge to END.
Booking ==
    /\ pc = "booking"
    /\ \E b \in TicketBookings :
        LET out == booking_parser(messages, b)
            after == add_messages(messages, out.messages)
        IN  /\ structured_in' = out.input
            /\ messages' = after
            /\ result' = after
    /\ bookingCalls' = bookingCalls + 1
    /\ pc' = "print"
    /\ UNCHANGED <<fileVars, transit_db, raised, line, user_input, response,
                   printed, turns, invocations, prints, llmCalls, toolCalls,
                   ret, found, searches, embedCalls>>

\* structured_llm.invoke raises.
BookingRaises ==
    /\ pc = "booking"
    /\ structured_in' = messages
    /\ bookingCalls' = bookingCalls + 1
    /\ raised' = "LLMError"
    /\ pc' = "crashed"
    /\ UNCHANGED <<fileVars, transit_db, line, user_input, messages, response,
                   result, printed, turns, invocations, prints, llmCalls,
                   toolCalls, ret, found, searches, embedCalls>>

\* ai_msg = result["messages"][-1]; print("\nAI:", ai_msg.content, "\n")
PrintReply ==
    /\ pc = "print"
    /\ printed' = Last(result).content
    /\ prints' = prints + 1
    /\ pc' = "input"
    /\ UNCHANGED <<fileVars, transit_db, raised, line, user_input, messages,
                   response, structured_in, result, turns, invocations,
                   llmCalls, toolCalls, bookingCalls, ret, found, searches,
                   embedCalls>>

\* transit_db.search(query) called on the built object.
Search ==
    /\ pc = "input"
    /\ searches < MaxSearches
    /\ \E q \in Queries, hits \in Rankings(transit_db) :
        LET out == search(transit_db, q, hits)
        IN  /\ ret' = out.ret
            /\ found' = IF out.asked THEN hits ELSE <<>>
            /\ transit_db' = out.self
            /\ embedCalls' = IF out.asked THEN embedCalls + 1 ELSE embedCalls
    /\ searches' = searches + 1
    /\ UNCHANGED <<fileVars, raised, pc, chatVars>>

Next ==
    \/ Build
    \/ ReadLine
    \/ Agent
    \/ AgentRaises
    \/ Tools
    \/ ToolsRaises
    \/ Booking
    \/ BookingRaises
    \/ PrintReply

NextLoader ==
    \/ Build
    \/ Search

Spec == Init /\ [][Next]_vars

LoaderSpec == InitLoader /\ [][NextLoader]_vars

\* The process is single-threaded and synchronous: whenever a step can be
\* taken, one is taken (every external call returns or raises).
\* Termination of a turn is followed on the sessions without a schedule file.
InitFair ==
    /\ jsonFile = [kind |-> "missing", data |-> <<>>]
    /\ policyFile \in ChatPolicyFiles
    /\ InitProcess

FairSpec == InitFair /\ [][Next]_vars /\ WF_vars(Next)


----------------------------------------------------------------------------
(* Claims *)

\* A turn is under way: app.invoke has been entered and its reply has not
\* been printed yet (or the turn ended in an uncaught exception).
InTurn == pc \in {"agent", "tools", "booking", "print", "crashed"}

\* The inbound user message of the turn under way.
Inbound == messages[1]

NoExternalCall == llmCalls = 0 /\ toolCalls = 0 /\ bookingCalls = 0

\* C1: a turn whose inbound user message, lower-cased and trimmed, is one of
\* yes, y, book, book it, confirm, ok book ends right after the agent step
\* with the fixed booking-link reply (it contains the IRCTC URL), and the
\* language model, the search tool and the booking parser are not invoked
\* in that turn.
C1Theorem ==
    (InTurn /\ lower(strip(Inbound.content)) \in YesList) =>
        /\ Inbound.type = "human"
        /\ NoExternalCall
        /\ pc \in {"agent", "print"}
        /\ pc = "agent" => Len(messages) = 1
        /\ pc = "print" =>
            /\ Len(messages) = 2
            /\ messages[2].type = "ai"
            /\ messages[2].tool_calls = <<>>
            /\ messages[2].content = BookingLinkReply
            /\ contains(messages[2].content, IrctcUrl)
            /\ result = messages

\* C1 witness: " Yes<TAB>" was typed and the turn ended with the link.
C1Witness ==
    /\ pc = "print"
    /\ line = <<" ", "Y", "e", "s", "\t">>
    /\ Inbound.content = <<"Y", "e", "s">>
    /\ Last(messages).content = BookingLinkReply
    /\ NoExternalCall

\* C2: a turn whose inbound user message, lower-cased, is one of no, nope,
\* nah ends right after the agent step with a reply equal to the fixed
\* decline string, and the language model, the search tool and the booking
\* parser are not invoked in that turn.
C2Theorem ==
    (InTurn /\ lower(Inbound.content) \in NoList) =>
        /\ Inbound.type = "human"
        /\ NoExternalCall
        /\ pc \in {"agent", "print"}
        /\ pc = "agent" => Len(messages) = 1
        /\ pc = "print" =>
            /\ Len(messages) = 2
            /\ messages[2] = AIMessage(DeclineReply, <<>>)
            /\ result = messages

\* C2 witness: "Nah " was typed and the turn ended with the decline string.
C2Witness ==
    /\ pc = "print"
    /\ line = <<"N", "a", "h", " ">>
    /\ Last(messages).content = DeclineReply
    /\ NoExternalCall


\* C3: the conversation state is append-only across the session: the state
\* with which the router is invoked at the start of a turn is every message
\* of the earlier turns, in order, followed by the new user message.
C3Claim ==
    (pc = "agent" /\ toolCalls = 0) =>
        messages = result \o <<HumanMessage(user_input)>>

\* C4: yes/no is tested on the inbound user message only: an agent step
\* that follows a tool result invokes the language model again, whatever
\* the text of the tool result is, so that after every agent step of a turn
\* with tool calls the model has been invoked once more than the tool.
C4Claim ==
    (pc \in {"tools", "booking", "print"} /\ toolCalls > 0) =>
        /\ llmCalls = toolCalls + 1
        /\ \A i \in 1..(Len(messages) - 1) :
              messages[i].type = "tool" =>
                  messages[i + 1].content \notin {BookingLinkReply, DeclineReply}

\* A response of the language model that asks for no tool and carries the
\* sentinel.
ReadyToBook(r) ==
    r.type = "ai" /\ r.tool_calls = <<>> /\ contains(r.content, Sentinel)

\* C5: in a turn the booking parser is invoked if and only if the latest
\* response of the language model has no tool request and contains
\* READY_TO_BOOK; it is invoked at most once, the structured model is given
\* the whole message list of the turn, the stringified booking record is
\* appended as the assistant's reply, and the turn ends there: no agent or
\* tools step follows a booking step.
C5Theorem ==
    /\ bookingCalls <= 1
    /\ pc \in {"agent", "tools"} => bookingCalls = 0
    /\ pc = "tools" => ~ReadyToBook(response)
    /\ pc = "booking" =>
        /\ bookingCalls = 0
        /\ ReadyToBook(response)
        /\ Last(messages) = response
    /\ pc = "print" => (bookingCalls = 1 <=> ReadyToBook(response))
    /\ bookingCalls = 1 => ReadyToBook(response) /\ structured_in # <<>>
    /\ (pc = "print" /\ bookingCalls = 1) =>
        /\ structured_in = SubSeq(messages, 1, Len(messages) - 1)
        /\ structured_in[1] = HumanMessage(user_input)
        /\ Last(structured_in) = response
        /\ Last(messages).type = "ai"
        /\ Last(messages).tool_calls = <<>>
        /\ \E b \in TicketBookings : Last(messages).content = str(b)
        /\ result = messages

\* C5 witness: a turn that went agent, tools, agent, booking and ended.
C5Witness ==
    /\ pc = "print"
    /\ bookingCalls = 1
    /\ toolCalls = 1
    /\ llmCalls = 2
    /\ Len(messages) = 5


\* The chunks each file should contribute, read off the files themselves.
WellFormedSchedule ==
    /\ jsonFile.kind = "list"
    /\ \A i \in 1..Len(jsonFile.data) :
          DOMAIN jsonFile.data[i] = Fields
SchedulePresent == jsonFile.kind # "missing"
PolicyPresent == policyFile.kind # "missing"
ScheduleChunks ==
    IF SchedulePresent
    THEN [i \in 1..Len(jsonFile.data) |->
             [page_content |-> TrainText(jsonFile.data[i]),
              metadata |-> "schedule"]]
    ELSE <<>>
PolicyChunks ==
    IF PolicyPresent
    THEN [i \in 1..Len(policyFile.windows) |->
             [page_content |-> policyFile.windows[i], metadata |-> "policy"]]
    ELSE <<>>
ZeroChunks ==
    /\ jsonFile.kind \in {"missing", "list"}
    /\ jsonFile.data = <<>>
    /\ policyFile.windows = <<>>

\* C6: when both sources yield zero chunks the build leaves the index
\* uninitialized (retriever None, no embedding call), and every search
\* after it, for any query and after any number of searches, returns
\* "Pipeline not initialized." without raising and without a call to the
\* embedding provider or the vector index.
C6Theorem ==
    (pc # "start" /\ ZeroChunks) =>
        /\ pc = "input"
        /\ raised = "None"
        /\ transit_db = [vectorstore |-> <<>>, retriever |-> "None"]
        /\ embedCalls = 0
        /\ searches > 0 => ret = <<"Pipeline not initialized.">>

\* C6 witness: an empty schedule list and an empty policy text, two
\* searches made.
C6Witness ==
    /\ jsonFile = [kind |-> "list", data |-> <<>>]
    /\ policyFile = [kind |-> "text", windows |-> <<>>]
    /\ searches = 2
    /\ ret = NotInitialized
    /\ embedCalls = 0

\* C7 as stated: whichever of the two files are present or missing, the
\* build completes without raising, the indexed chunks are exactly those of
\* the sources that are present, and the index is initialized if and only
\* if there is at least one chunk.
C7Claim ==
    pc # "start" =>
        /\ raised = "None"
        /\ pc = "input"
        /\ transit_db.vectorstore = ScheduleChunks \o PolicyChunks
        /\ transit_db.retriever # "None" <=> ScheduleChunks \o PolicyChunks # <<>>

\* C7 amended: whichever of the two files are present or missing, provided
\* a schedule file that is present is well formed and the embedding call of
\* the build does not fail, the build completes without raising, a missing
\* source contributes no chunk, the indexed chunks are exactly those of the
\* sources that are present (schedule first), and the index is initialized
\* if and only if there is at least one chunk.  A build raises only for a
\* schedule file that is present and not well formed, or for a failed
\* embedding call, and then nothing is indexed.
C7Theorem ==
    pc # "start" =>
        /\ raised \in {"JSONDecodeError", "KeyError"} <=>
              (SchedulePresent /\ ~WellFormedSchedule)
        /\ raised = "EmbeddingError" =>
              (ScheduleChunks \o PolicyChunks # <<>> /\ embedCalls > 0)
        /\ ((SchedulePresent => WellFormedSchedule)
              /\ raised # "EmbeddingError") =>
              /\ raised = "None"
              /\ pc = "input"
              /\ transit_db.vectorstore = ScheduleChunks \o PolicyChunks
              /\ transit_db.retriever # "None" <=>
                    ScheduleChunks \o PolicyChunks # <<>>
        /\ raised # "None" => pc = "exited" /\ transit_db = NewRetriever

\* C7 witness: no schedule file, a policy text of two windows: the index
\* holds the two policy chunks only.
C7Witness ==
    /\ pc = "input"
    /\ jsonFile.kind = "missing"
    /\ policyFile.windows = <<PolicyRefund, PolicyLuggage>>
    /\ transit_db.retriever # "None"
    /\ Len(transit_db.vectorstore) = 2
    /\ \A i \in 1..2 : transit_db.vectorstore[i].metadata = "policy"

\* The symbols of a rendered schedule chunk that are not literal text.
RenderedValues(text) == {text[j] : j \in {i \in 1..Len(text) : i % 2 = 0}}

\* C8: with N well-formed records in the schedule file and no policy file,
\* the loader returns exactly N chunks, chunk i made from record i, tagged
\* schedule and carrying the record's name, train number, source,
\* destination, price, class and days; a build that completes indexes
\* those N chunks and nothing else.
C8Theorem ==
    (WellFormedSchedule /\ ~PolicyPresent) =>
        LET data == jsonFile.data
            docs == _load_json_docs(jsonFile).docs
        IN  /\ _load_json_docs(jsonFile).raised = "None"
            /\ Len(docs) = Len(data)
            /\ \A i \in 1..Len(data) :
                  /\ docs[i].metadata = "schedule"
                  /\ \A f \in Fields : contains(docs[i].page_content, data[i][f])
                  /\ RenderedValues(docs[i].page_content)
                        = {data[i][f] : f \in Fields}
                  /\ docs[i].page_content[2] = data[i]["name"]
                  /\ docs[i].page_content[4] = data[i]["train_no"]
                  /\ docs[i].page_content[14] = data[i]["days"]
            /\ (pc = "input" => transit_db.vectorstore = docs)
            /\ (pc = "input" /\ Len(data) > 0) => transit_db.retriever # "None"

\* C8 witness: two different records, no policy file, both indexed in the
\* order of the file.
C8Witness ==
    /\ pc = "input"
    /\ jsonFile.data = <<Rec2, Rec1>>
    /\ ~PolicyPresent
    /\ Len(transit_db.vectorstore) = 2
    /\ contains(transit_db.vectorstore[1].page_content, "shatabdi")
    /\ contains(transit_db.vectorstore[2].page_content, "rajdhani")

\* C9: the index is built once, by the start-up build, and is read-only
\* afterwards: no step taken after start-up (a line read, an agent, tools or
\* booking step, a print) changes the retriever handle, the indexed chunks
\* or the files, and start-up is never re-entered.
C9Theorem ==
    [][pc # "start" =>
          /\ transit_db' = transit_db
          /\ jsonFile' = jsonFile
          /\ policyFile' = policyFile
          /\ pc' # "start"]_vars

\* C9 witness: second turn of a session on a built index, the search tool
\* has run in it, and the index still holds what the build indexed.
C9Witness ==
    /\ pc = "print"
    /\ turns = 2
    /\ toolCalls = 1
    /\ transit_db.retriever # "None"
    /\ transit_db.vectorstore = ScheduleChunks \o PolicyChunks
    /\ Len(transit_db.vectorstore) = 2

\* The line typed, trimmed and lower-cased, is exit or quit.
ExitTyped == lower(strip(line)) \in {<<"e", "x", "i", "t">>, <<"q", "u", "i", "t">>}

\* C10: the chat loop ends the session (leaves while True) if and only if
\* the line read, trimmed and lower-cased, is exit or quit; every other
\* line, the empty one included, is one user turn: one call of app.invoke
\* on that line, whose final reply is printed before the next line is read.
\* (An uncaught exception of a turn aborts the process; that is not the
\* loop ending the session, and no line is read after it.)
C10Theorem ==
    /\ pc = "ended" <=> ExitTyped
    /\ pc \in {"start", "exited"} => turns = 0
    /\ invocations = turns
    /\ InTurn =>
        /\ Inbound = HumanMessage(strip(line))
        /\ prints = turns - 1
    /\ pc \in {"input", "ended"} => prints = turns
    /\ (pc = "input" /\ turns > 0) =>
        /\ result = messages
        /\ printed = Last(messages).content
        /\ Last(messages).type = "ai"

\* C10 witness: an empty line was a turn of its own, after an earlier turn,
\* and its reply is about to be printed.
C10Witness ==
    /\ pc = "print"
    /\ line = <<>>
    /\ turns = 2
    /\ prints = 1
    /\ Len(result) = 2


\* An external call of the turn under way has raised.
TurnFailed == raised \in {"LLMError", "SearchError"}

\* C11: a failure of the language model, the embedding provider or the
\* vector index during a turn is not retried and not recovered: the failed
\* turn gets no assistant reply (nothing is appended after the failure,
\* nothing is printed for it), and the failure is fatal for that turn only,
\* so the process is still running its chat loop afterwards.
C11Claim ==
    TurnFailed =>
        /\ prints = turns - 1
        /\ Last(messages).type \in {"human", "tool"} \/ ReadyToBook(Last(messages))
        /\ pc \notin {"crashed", "exited"}


\* The blocks of a text that blank lines separate.
RECURSIVE Blocks(_)
Blocks(text) ==
    IF ~contains(text, "\n\n") THEN <<text>>
    ELSE LET i == CHOOSE k \in 1..Len(text) :
                    text[k] = "\n\n" /\ \A j \in 1..(k - 1) : text[j] # "\n\n"
         IN  <<SubSeq(text, 1, i - 1)>>
                 \o Blocks(SubSeq(text, i + 1, Len(text)))

\* C12: on a built index search(query) returns the texts of exactly
\* min(3, number of indexed chunks) chunks, so at most 3, separated by
\* blank lines, in the order in which the index ranked them; every text
\* returned is the text of a chunk indexed at build.
C12Theorem ==
    (searches > 0 /\ transit_db.retriever # "None") =>
        LET parts == Blocks(ret)
            indexed == ScheduleChunks \o PolicyChunks
            n == Len(indexed)
        IN  /\ transit_db.vectorstore = indexed
            /\ Len(parts) = (IF n < 3 THEN n ELSE 3)
            /\ Len(parts) <= 3
            /\ Len(found) = Len(parts)
            /\ \A i \in 1..Len(parts) :
                  /\ parts[i] = indexed[found[i]].page_content
                  /\ \E j \in 1..n : parts[i] = indexed[j].page_content

\* C12 witness: four chunks indexed, three returned, ranked in an order
\* that is not the order of the files.
C12Witness ==
    /\ searches > 0
    /\ Len(transit_db.vectorstore) = 4
    /\ Len(Blocks(ret)) = 3
    /\ found = <<4, 1, 3>>
    /\ Blocks(ret)[1] = PolicyLuggage
    /\ Blocks(ret)[2] = TrainText(jsonFile.data[1])


\* The language model has answered in this turn without a tool request.
AnsweredWithoutTool == response.type = "ai" /\ response.tool_calls = <<>>

\* The turn under way is over: its reply is ready to print, or an external
\* call raised.
TurnOver == pc \in {"print", "input", "ended", "crashed"}

\* C13: a turn that reaches the language model ends once the model answers
\* without a tool request: the loop is left right after that response,
\* through at most one booking step, with exactly one reply after it
\* (provided no external call raises); and every turn started is
\* eventually over when the model stops asking for the tool.  The router
\* itself never refuses a tool request: however many agent -> tools ->
\* agent rounds the turn has made, a response with a tool request is
\* routed to the tools step again.
C13Theorem ==
    /\ [](AnsweredWithoutTool =>
            /\ pc \in {"booking", "print", "input", "ended", "crashed"}
            /\ pc = "crashed" => bookingCalls = 1
            /\ pc = "print" =>
                /\ bookingCalls = (IF ReadyToBook(response) THEN 1 ELSE 0)
                /\ Len(messages) = 2 * toolCalls + 2 + bookingCalls
                /\ messages[2 * toolCalls + 2] = response
                /\ result = messages)
    /\ [](\A reply \in LLMReplies(TRUE) :
            (messages # <<>> /\ reply.tool_calls # <<>>) =>
                route(add_messages(messages, <<reply>>)) = "tools")
    /\ ((pc = "agent") ~> TurnOver)

\* C13 witness: the model asked for the tool as often as the bound lets it,
\* then answered without a request, and the turn ended with that answer.
C13Witness ==
    /\ pc = "print"
    /\ toolCalls = MaxToolLoops
    /\ llmCalls = toolCalls + 1
    /\ AnsweredWithoutTool
    /\ bookingCalls = 0
    /\ Last(messages) = response


\* A response of the language model that asks for the tool and also
\* carries the sentinel.
ToolAndSentinel(r) ==
    r.type = "ai" /\ r.tool_calls # <<>> /\ contains(r.content, Sentinel)

\* C14: a tool request takes precedence over the sentinel: after a response
\* that both asks for the search tool and contains READY_TO_BOOK the router
\* runs the tools step and returns to the agent, and does not enter
\* booking; booking is entered only on a response with no tool request that
\* contains the sentinel; a response with neither ends the turn with the
\* model's text as the reply.
C14Theorem ==
    /\ (InTurn /\ ToolAndSentinel(response)) =>
        /\ bookingCalls = 0
        /\ pc # "booking"
        /\ pc = "tools" => (toolCalls = llmCalls - 1 /\ Last(messages) = response)
        /\ pc = "agent" =>
            /\ toolCalls = llmCalls
            /\ Last(messages).type = "tool"
            /\ messages[Len(messages) - 1] = response
    /\ pc = "booking" =>
        /\ response.tool_calls = <<>>
        /\ contains(response.content, Sentinel)
        /\ Last(messages) = response
    /\ (InTurn /\ response.type = "ai" /\ response.tool_calls = <<>>
            /\ ~contains(response.content, Sentinel)) =>
        /\ pc = "print"
        /\ bookingCalls = 0
        /\ Last(messages) = response
        /\ result = messages

\* C14 witness: the first response asked for the tool and carried the
\* sentinel, the tool ran, and booking was entered on the second response,
\* which carried the sentinel alone.
C14Witness ==
    /\ pc = "booking"
    /\ Len(messages) = 4
    /\ ToolAndSentinel(messages[2])
    /\ messages[3].type = "tool"
    /\ ReadyToBook(messages[4])


\* The exceptions that can leave TransitRetriever().
StartupFailures == {"JSONDecodeError", "KeyError", "EmbeddingError"}

\* C15: any exception raised while the retriever is constructed (a
\* malformed schedule file, a record without a required field, a failing
\* embedding call) makes the process print an error message and exit
\* before the chat loop has read a line or run a turn, and nothing happens
\* after the exit; a source file that is merely missing is tolerated: it
\* raises nothing, and the process goes on to the chat loop.
C15Theorem ==
    /\ pc # "start" =>
        /\ raised \in StartupFailures <=> pc = "exited"
        /\ (SchedulePresent /\ ~WellFormedSchedule) => pc = "exited"
        /\ (~SchedulePresent /\ ~PolicyPresent) => pc # "exited"
        /\ (~SchedulePresent /\ raised # "EmbeddingError") => pc # "exited"
    /\ pc = "exited" =>
        /\ printed = <<"Error initializing TransitRetriever: ", raised>>
        /\ turns = 0
        /\ invocations = 0
        /\ prints = 0
        /\ line = <<>>
        /\ messages = <<>>
        /\ transit_db.retriever = "None"
    /\ raised \in StartupFailures => (turns = 0 /\ messages = <<>>)

\* C15 witness: a schedule file whose record lacks 'days' ended the
\* process at start-up with the error printed.
C15Witness ==
    /\ pc = "exited"
    /\ jsonFile = [kind |-> "list", data |-> <<RecNoDays>>]
    /\ raised = "KeyError"
    /\ printed = StartupError("KeyError")
    /\ turns = 0


\* s is t with exactly one message appended.
OneAppended(s, t) ==
    Len(t) = Len(s) + 1 /\ SubSeq(t, 1, Len(s)) = s

\* What a step of the graph does to the message list.
StepAppends ==
    pc \in {"agent", "tools", "booking"} =>
        /\ (pc' = "crashed" => messages' = messages)
        /\ (pc' # "crashed" => OneAppended(messages, messages'))
        /\ ((pc' # "crashed" /\ pc = "tools") => Last(messages').type = "tool")
        /\ ((pc' # "crashed" /\ pc # "tools") => Last(messages').type = "ai")

\* C16: within a turn the message list only grows: an agent, tools or
\* booking step that completes leaves every earlier message where and as it
\* was and appends exactly its own output (an assistant message for agent
\* and booking, a tool-result message for tools), and a step that raises
\* changes nothing; in every completed turn the last message, the one
\* printed, is an assistant message appended by the agent or the booking
\* step, never the user's message or a tool result.
C16Theorem ==
    /\ [][StepAppends]_vars
    /\ [](pc \in {"agent", "tools", "booking", "print"} =>
            messages[1] = HumanMessage(user_input))
    /\ [](pc = "print" =>
            /\ Len(messages) >= 2
            /\ Last(messages).type = "ai"
            /\ Last(messages).tool_calls = <<>>
            /\ \/ Last(messages) = response
               \/ Last(messages).content \in {BookingLinkReply, DeclineReply}
               \/ \E b \in TicketBookings : Last(messages).content = str(b))
    /\ []((pc = "input" /\ turns > 0) =>
            /\ printed = Last(messages).content
            /\ Last(messages).type = "ai")

\* C16 witness: a completed turn of four messages, user, assistant with a
\* tool request, tool result, assistant reply, in that order.
C16Witness ==
    /\ pc = "print"
    /\ Len(messages) = 4
    /\ messages[1].type = "human"
    /\ messages[2].tool_calls # <<>>
    /\ messages[3].type = "tool"
    /\ messages[4] = response
    /\ bookingCalls = 0

=============================================================================
